---- MODULE Spec2Model ----
(***************************************************************************)
(* SAFT-VRQ Mie Helmholtz energy functional (saftvrqmie/dft/mod.rs) and    *)
(* its constructor in the binding layer (python/dft.rs).                   *)
(*                                                                         *)
(* A caller holds a parameter set (Arc<SaftVRQMieParameters>), builds one  *)
(* functional from it through one of the constructors, and then calls the  *)
(* &self methods of the functional in any order.  Each call leaves its     *)
(* returned value in ret; the caller drops it before the next call.        *)
(*                                                                         *)
(* Conventions:                                                            *)
(*  - arrays are sequences; indices are 1-based here and 0-based in Rust.  *)
(*  - an Option<T> is a sequence of length 0 (None) or 1 (Some).           *)
(*  - an f64 is an exact rational <<p, q>> in lowest terms with q > 0, or  *)
(*    one of the IEEE specials NaN, PosInf, NegInf produced by a division  *)
(*    by zero.  Rounding is not modelled.                                  *)
(***************************************************************************)
EXTENDS Integers, Sequences, FiniteSets

VARIABLES
    params,   \* the caller's Arc<SaftVRQMieParameters>
    f,        \* Option<SaftVRQMieFunctional>: the functional under observation
    ret       \* Option<[op, args, val]>: the value returned by the last call

vars == <<params, f, ret>>

---------------------------------------------------------------------------
(* Bounds of the exploration *)

\* largest number of components of a parameter set
MaxComp == 3
\* largest mole number of one component in a mole vector
MaxMoles == 1
\* largest scaling factor applied to a mole vector
MaxK == 3

---------------------------------------------------------------------------
(* f64 arithmetic on exact rationals *)

RECURSIVE Gcd(_, _)
Gcd(a, b) == IF b = 0 THEN a ELSE Gcd(b, a % b)

Abs(a) == IF a < 0 THEN -a ELSE a

NaN == <<0, 0>>
PosInf == <<1, 0>>
NegInf == <<-1, 0>>

IsFinite(x) == x[2] # 0

\* the rational p/q (q # 0) in lowest terms with a positive denominator
Norm(p, q) ==
    LET g == Gcd(Abs(p), Abs(q))
        s == IF q < 0 THEN -1 ELSE 1
    IN  <<(s * p) \div g, (s * q) \div g>>

FromInt(i) == <<i, 1>>

FMul(x, y) == Norm(x[1] * y[1], x[2] * y[2])

FAdd(x, y) ==
    LET g == Gcd(x[2], y[2])
    IN  Norm(x[1] * (y[2] \div g) + y[1] * (x[2] \div g), (x[2] \div g) * y[2])

\* IEEE division of finite operands: 0/0 is NaN, x/0 is an infinity
FDiv(x, y) ==
    IF y[1] = 0
    THEN IF x[1] = 0 THEN NaN ELSE IF x[1] > 0 THEN PosInf ELSE NegInf
    ELSE Norm(x[1] * y[2], x[2] * y[1])

\* x < y for finite x and y, by cross-multiplication after cancelling the
\* common factors of the denominators
FLess(x, y) ==
    LET g == Gcd(x[2], y[2])
    IN  x[1] * (y[2] \div g) < y[1] * (x[2] \div g)

\* v.powi(3)
Powi3(v) == FMul(FMul(v, v), v)

\* std::f64::consts::FRAC_PI_6, to four decimal places
FRAC_PI_6 == Norm(5236, 10000)

\* Array1::sum
RECURSIVE ArraySum(_)
ArraySum(a) == IF a = <<>> THEN FromInt(0) ELSE FAdd(Head(a), ArraySum(Tail(a)))

---------------------------------------------------------------------------
(* Inputs *)

FMTVersions == {"WhiteBear", "KierlikRosinberg", "AntiSymWhiteBear"}

FeynmanHibbsOrders == {"FH1", "FH2"}

\* the max_eta values a caller passes: 0, 1/2, 1 and 3/2
MaxEtas == {<<0, 1>>, <<1, 2>>, <<1, 1>>, <<3, 2>>}

SaftVRQMieOptionsSet ==
    [max_eta : MaxEtas, fh_order : FeynmanHibbsOrders, inc_nonadd_term : BOOLEAN]

\* SaftVRQMieOptions::default()
DefaultOptions == [max_eta |-> <<1, 2>>, fh_order |-> "FH1", inc_nonadd_term |-> TRUE]

\* the pure-component record of species i (sample inputs; all values positive)
PureRecord(i) ==
    [m |-> 1 + (i % 2), sigma |-> i + 1, epsilon_k |-> 10 * i + 20,
     molarweight |-> 2 * i + 2, joback |-> [species |-> i]]

SeqsUpTo(S, n) == UNION { [1..k -> S] : k \in 0..n }

\* the mixtures a caller builds: distinct species, listed in ascending order
SpeciesLists ==
    { l \in SeqsUpTo(1..MaxComp, MaxComp) :
        /\ l # <<>>
        /\ \A i, j \in 1..Len(l) : i < j => l[i] < l[j] }

\* SaftVRQMieParameters built from pure records; joback_records is Some only
\* when the ideal-gas records are supplied
FromRecords(species, with_joback) ==
    [ m              |-> [i \in 1..Len(species) |-> FromInt(PureRecord(species[i]).m)],
      sigma          |-> [i \in 1..Len(species) |-> FromInt(PureRecord(species[i]).sigma)],
      epsilon_k      |-> [i \in 1..Len(species) |-> FromInt(PureRecord(species[i]).epsilon_k)],
      molarweight    |-> [i \in 1..Len(species) |-> FromInt(PureRecord(species[i]).molarweight)],
      joback_records |-> IF with_joback
                         THEN << [i \in 1..Len(species) |-> PureRecord(species[i]).joback] >>
                         ELSE <<>> ]

ParameterSets == { FromRecords(l, j) : l \in SpeciesLists, j \in BOOLEAN }

\* ndarray select: the entries of a at the indices of component_list, in its order
Select(a, component_list) == [k \in 1..Len(component_list) |-> a[component_list[k]]]

\* SaftVRQMieParameters::subset
ParametersSubset(parameters, component_list) ==
    [ m              |-> Select(parameters.m, component_list),
      sigma          |-> Select(parameters.sigma, component_list),
      epsilon_k      |-> Select(parameters.epsilon_k, component_list),
      molarweight    |-> Select(parameters.molarweight, component_list),
      joback_records |-> IF parameters.joback_records = <<>>
                         THEN <<>>
                         ELSE << Select(parameters.joback_records[1], component_list) >> ]

\* index lists without repetition over the components 1..n
ComponentLists(n) ==
    { l \in SeqsUpTo(1..n, n) : \A i, j \in 1..Len(l) : i # j => l[i] # l[j] }

\* mole vectors with one entry per component
MoleVectors(n) == [1..n -> 0..MaxMoles]

---------------------------------------------------------------------------
(* SaftVRQMieFunctional::with_options *)

\* mutant: the branch condition without the AntiSymWhiteBear alternative
IsFastPathWhiteBearOnly(parameters, fmt_version) ==
    /\ fmt_version = "WhiteBear"
    /\ Len(parameters.m) = 1

\* the branch condition of with_options
IsFastPath(parameters, fmt_version) ==
    /\ fmt_version \in {"WhiteBear", "AntiSymWhiteBear"}
    /\ Len(parameters.m) = 1

\* a Box<dyn FunctionalContribution>: its type, the parameters it shares and,
\* for the FMT contributions, the FMT version it was built with
Contribution(kind, parameters, version) ==
    [kind |-> kind, parameters |-> parameters, version |-> version]

\* the then-branch of with_options
PureContributions(parameters, fmt_version) ==
    << Contribution("PureFMTAssocFunctional", parameters, <<fmt_version>>),
       Contribution("PureAttFunctional", parameters, <<>>) >>

\* mutant: the else-branch with the non-additive term pushed unconditionally
GeneralContributionsAlwaysNonAdd(parameters, fmt_version, saft_options) ==
    << Contribution("FMTContribution", parameters, <<fmt_version>>),
       Contribution("NonAddHardSphereFunctional", parameters, <<>>),
       Contribution("AttractiveFunctional", parameters, <<>>) >>

\* the else-branch of with_options
GeneralContributions(parameters, fmt_version, saft_options) ==
    << Contribution("FMTContribution", parameters, <<fmt_version>>) >>
    \o (IF saft_options.inc_nonadd_term
        THEN << Contribution("NonAddHardSphereFunctional", parameters, <<>>) >>
        ELSE <<>>)
    \o << Contribution("AttractiveFunctional", parameters, <<>>) >>

\* mutant: the ideal-gas term built without looking at joback_records
JobackDefaultOnly(parameters) ==
    [ctor |-> "Joback::default", records |-> <<>>, components |-> Len(parameters.m)]

\* the ideal-gas term of with_options
JobackOf(parameters) ==
    IF parameters.joback_records # <<>>
    THEN [ctor |-> "Joback::new", records |-> parameters.joback_records[1],
          components |-> Len(parameters.joback_records[1])]
    ELSE [ctor |-> "Joback::default", records |-> <<>>,
          components |-> Len(parameters.m)]

with_options(parameters, fmt_version, saft_options) ==
    [ parameters    |-> parameters,
      fmt_version   |-> fmt_version,
      options       |-> saft_options,
      contributions |-> IF IsFastPath(parameters, fmt_version)
                        THEN PureContributions(parameters, fmt_version)
                        ELSE GeneralContributions(parameters, fmt_version, saft_options),
      joback        |-> JobackOf(parameters) ]

new(parameters) == with_options(parameters, "WhiteBear", DefaultOptions)

new_full(parameters, fmt_version) == with_options(parameters, fmt_version, DefaultOptions)

\* PyFunctionalVariant::saftvrqmie
saftvrqmie(parameters, fmt_version, max_eta, fh_order, inc_nonadd_term) ==
    LET options == [max_eta |-> max_eta, fh_order |-> fh_order,
                    inc_nonadd_term |-> inc_nonadd_term]
    IN  with_options(parameters, fmt_version, options)

---------------------------------------------------------------------------
(* impl HelmholtzEnergyFunctional / MolarWeight / FluidParameters /        *)
(* PairPotential for SaftVRQMieFunctional                                  *)

\* mutant: subset as an array slice that keeps the contribution list of self
subsetSlice(self, component_list) ==
    [self EXCEPT !.parameters = ParametersSubset(self.parameters, component_list)]

\* mutant: subset through new_full, which drops the options of self
subsetNewFull(self, component_list) ==
    new_full(ParametersSubset(self.parameters, component_list), self.fmt_version)

subset(self, component_list) ==
    with_options(ParametersSubset(self.parameters, component_list),
                 self.fmt_version, self.options)

\* mutant: the diameter squared instead of cubed
compute_max_density_powi2(self, moles) ==
    LET n == Len(self.parameters.m)
        weighted == [i \in 1..n |->
                        FMul(FMul(FMul(FRAC_PI_6, self.parameters.m[i]),
                                  FMul(self.parameters.sigma[i], self.parameters.sigma[i])),
                             FromInt(moles[i]))]
        total == ArraySum([i \in 1..Len(moles) |-> FromInt(moles[i])])
    IN  FDiv(FMul(self.options.max_eta, total), ArraySum(weighted))

\* mutant: the numerator without moles.sum()
compute_max_density_no_total(self, moles) ==
    LET n == Len(self.parameters.m)
        weighted == [i \in 1..n |->
                        FMul(FMul(FMul(FRAC_PI_6, self.parameters.m[i]),
                                  Powi3(self.parameters.sigma[i])),
                             FromInt(moles[i]))]
    IN  FDiv(self.options.max_eta, ArraySum(weighted))

\* mutant: the default max_eta instead of the one of self.options
compute_max_density_default_eta(self, moles) ==
    LET n == Len(self.parameters.m)
        weighted == [i \in 1..n |->
                        FMul(FMul(FMul(FRAC_PI_6, self.parameters.m[i]),
                                  Powi3(self.parameters.sigma[i])),
                             FromInt(moles[i]))]
        total == ArraySum([i \in 1..Len(moles) |-> FromInt(moles[i])])
    IN  FDiv(FMul(DefaultOptions.max_eta, total), ArraySum(weighted))

compute_max_density(self, moles) ==
    LET n == Len(self.parameters.m)
        weighted == [i \in 1..n |->
                        FMul(FMul(FMul(FRAC_PI_6, self.parameters.m[i]),
                                  Powi3(self.parameters.sigma[i])),
                             FromInt(moles[i]))]
        total == ArraySum([i \in 1..Len(moles) |-> FromInt(moles[i])])
    IN  FDiv(FMul(self.options.max_eta, total), ArraySum(weighted))

contributions(self) == self.contributions

ideal_gas(self) == self.joback

molecule_shape(self) == [shape |-> "NonSpherical", m |-> self.parameters.m]

molar_weight(self) == [value |-> self.parameters.molarweight, unit |-> "GRAM/MOL"]

epsilon_k_ff(self) == self.parameters.epsilon_k

sigma_ff(self) == self.parameters.sigma

\* the matrix of shape (components, r.len()) whose entry (j, k) is the first
\* element of qmie_potential_ij(i, j, r[k], temperature)
pair_potential(self, i, r, temperature) ==
    [j \in 1..Len(self.parameters.m) |->
        [k \in 1..Len(r) |->
            [call |-> "qmie_potential_ij", i |-> i, j |-> j, r |-> r[k],
             temperature |-> temperature]]]

---------------------------------------------------------------------------
(* The caller *)

Built == f # <<>>

\* the distance vectors and the temperature passed to pair_potential
DistanceVectors == {<<1>>, <<1, 2>>}
Temperatures == {300}

\* the component count of the functional under observation
Components == IF Built THEN Len(f[1].parameters.m) ELSE 0

Returned(op, args, val) == << [op |-> op, args |-> args, val |-> val] >>

Init ==
    /\ params \in ParameterSets
    /\ f = <<>>
    /\ ret = <<>>

New ==
    /\ ~Built
    /\ f' = << new(params) >>
    /\ UNCHANGED <<params, ret>>

NewFull(fmt_version) ==
    /\ ~Built
    /\ f' = << new_full(params, fmt_version) >>
    /\ UNCHANGED <<params, ret>>

WithOptions(fmt_version, saft_options) ==
    /\ ~Built
    /\ f' = << with_options(params, fmt_version, saft_options) >>
    /\ UNCHANGED <<params, ret>>

Saftvrqmie(fmt_version, max_eta, fh_order, inc_nonadd_term) ==
    /\ ~Built
    /\ f' = << saftvrqmie(params, fmt_version, max_eta, fh_order, inc_nonadd_term) >>
    /\ UNCHANGED <<params, ret>>

\* mutant: subset through &mut self, replacing the functional by its subset
SubsetInPlace(component_list) ==
    /\ Built /\ ret = <<>>
    /\ ret' = Returned("subset", component_list, subset(f[1], component_list))
    /\ f' = << subset(f[1], component_list) >>
    /\ UNCHANGED params

\* a &self method: the functional and the parameter set are only read
Subset(component_list) ==
    /\ Built /\ ret = <<>>
    /\ ret' = Returned("subset", component_list, subset(f[1], component_list))
    /\ UNCHANGED <<params, f>>

ComputeMaxDensity(moles) ==
    /\ Built /\ ret = <<>>
    /\ ret' = Returned("compute_max_density", moles, compute_max_density(f[1], moles))
    /\ UNCHANGED <<params, f>>

Contributions ==
    /\ Built /\ ret = <<>>
    /\ ret' = Returned("contributions", <<>>, contributions(f[1]))
    /\ UNCHANGED <<params, f>>

IdealGas ==
    /\ Built /\ ret = <<>>
    /\ ret' = Returned("ideal_gas", <<>>, ideal_gas(f[1]))
    /\ UNCHANGED <<params, f>>

MoleculeShape ==
    /\ Built /\ ret = <<>>
    /\ ret' = Returned("molecule_shape", <<>>, molecule_shape(f[1]))
    /\ UNCHANGED <<params, f>>

MolarWeight ==
    /\ Built /\ ret = <<>>
    /\ ret' = Returned("molar_weight", <<>>, molar_weight(f[1]))
    /\ UNCHANGED <<params, f>>

EpsilonKFf ==
    /\ Built /\ ret = <<>>
    /\ ret' = Returned("epsilon_k_ff", <<>>, epsilon_k_ff(f[1]))
    /\ UNCHANGED <<params, f>>

SigmaFf ==
    /\ Built /\ ret = <<>>
    /\ ret' = Returned("sigma_ff", <<>>, sigma_ff(f[1]))
    /\ UNCHANGED <<params, f>>

PairPotential(i, r, temperature) ==
    /\ Built /\ ret = <<>>
    /\ ret' = Returned("pair_potential", <<i, r, temperature>>,
                       pair_potential(f[1], i, r, temperature))
    /\ UNCHANGED <<params, f>>

\* the caller drops the returned value
Drop ==
    /\ ret # <<>>
    /\ ret' = <<>>
    /\ UNCHANGED <<params, f>>

Next ==
    \/ New
    \/ \E v \in FMTVersions : NewFull(v)
    \/ \E v \in FMTVersions, o \in SaftVRQMieOptionsSet : WithOptions(v, o)
    \/ \E v \in FMTVersions, e \in MaxEtas, h \in FeynmanHibbsOrders, b \in BOOLEAN :
          Saftvrqmie(v, e, h, b)
    \/ \E l \in ComponentLists(Components) : Subset(l)
    \/ \E n \in MoleVectors(Components) : ComputeMaxDensity(n)
    \/ Contributions
    \/ IdealGas
    \/ MoleculeShape
    \/ MolarWeight
    \/ EpsilonKFf
    \/ SigmaFf
    \/ \E i \in 1..Components, r \in DistanceVectors, t \in Temperatures :
          PairPotential(i, r, t)
    \/ Drop

Spec == Init /\ [][Next]_vars

---------------------------------------------------------------------------
(* Vocabulary of the properties *)

Self == f[1]

LastCall(op) == ret # <<>> /\ ret[1].op = op

Kinds(list) == [i \in 1..Len(list) |-> list[i].kind]

WhiteBearVariant(version) == version \in {"WhiteBear", "AntiSymWhiteBear"}

PureKinds == <<"PureFMTAssocFunctional", "PureAttFunctional">>

GeneralKinds(inc_nonadd_term) ==
    IF inc_nonadd_term
    THEN <<"FMTContribution", "NonAddHardSphereFunctional", "AttractiveFunctional">>
    ELSE <<"FMTContribution", "AttractiveFunctional">>

HasKind(list, kinds) == \E i \in 1..Len(list) : list[i].kind \in kinds

RemoveAt(list, i) == [k \in 1..(Len(list) - 1) |-> IF k < i THEN list[k] ELSE list[k + 1]]

Identity(n) == [i \in 1..n |-> i]

Total(moles) == ArraySum([i \in 1..Len(moles) |-> FromInt(moles[i])])

Scaled(k, moles) == [i \in 1..Len(moles) |-> k * moles[i]]

\* the functional built like fn but with another max_eta
WithMaxEta(fn, e) ==
    with_options(fn.parameters, fn.fmt_version, [fn.options EXCEPT !.max_eta = e])

---------------------------------------------------------------------------
(* C1 *)

C1Of(fn) ==
    LET fast == WhiteBearVariant(fn.fmt_version) /\ Len(fn.parameters.m) = 1
    IN  /\ HasKind(fn.contributions, {"PureFMTAssocFunctional", "PureAttFunctional"}) <=> fast
        /\ fast =>
            /\ Kinds(fn.contributions) = PureKinds
            /\ fn.contributions[1].version = <<fn.fmt_version>>
            /\ \A i \in 1..2 : fn.contributions[i].parameters = fn.parameters
            /\ ~HasKind(fn.contributions, {"FMTContribution", "NonAddHardSphereFunctional",
                                           "AttractiveFunctional"})

\* C1: a functional is built on the fast path exactly when its FMT version is
\* WhiteBear or AntiSymWhiteBear and it has one component; its contribution
\* list is then exactly [PureFMTAssocFunctional, PureAttFunctional], with no
\* general contribution, whatever inc_nonadd_term is.
C1_FastPath ==
    /\ Built => C1Of(Self)
    /\ LastCall("subset") => C1Of(ret[1].val)

C1_Witness ==
    /\ Built /\ Components = 1
    /\ Self.fmt_version = "AntiSymWhiteBear"
    /\ Self.options.inc_nonadd_term
    /\ Kinds(Self.contributions) = PureKinds

---------------------------------------------------------------------------
(* C2 *)

C2Of(fn) ==
    LET fast == WhiteBearVariant(fn.fmt_version) /\ Len(fn.parameters.m) = 1
        on   == with_options(fn.parameters, fn.fmt_version,
                             [fn.options EXCEPT !.inc_nonadd_term = TRUE])
        off  == with_options(fn.parameters, fn.fmt_version,
                             [fn.options EXCEPT !.inc_nonadd_term = FALSE])
    IN  ~fast =>
        /\ Kinds(fn.contributions) = GeneralKinds(fn.options.inc_nonadd_term)
        /\ fn.contributions[1].version = <<fn.fmt_version>>
        /\ \A i \in 1..Len(fn.contributions) : fn.contributions[i].parameters = fn.parameters
        /\ Len(on.contributions) = Len(off.contributions) + 1
        /\ ~HasKind(off.contributions, {"NonAddHardSphereFunctional"})
        /\ \E i \in 1..Len(on.contributions) :
              /\ on.contributions[i].kind = "NonAddHardSphereFunctional"
              /\ RemoveAt(on.contributions, i) = off.contributions

\* C2: off the fast path the contribution list is [FMTContribution,
\* NonAddHardSphereFunctional, AttractiveFunctional] when inc_nonadd_term is
\* set and [FMTContribution, AttractiveFunctional] otherwise, and the two
\* functionals that differ only in inc_nonadd_term have lists that differ
\* exactly by the one non-additive contribution.
C2_GeneralPath ==
    /\ Built => C2Of(Self)
    /\ LastCall("subset") => C2Of(ret[1].val)

C2_Witness ==
    /\ Built /\ Components = 2
    /\ Self.fmt_version = "WhiteBear"
    /\ ~Self.options.inc_nonadd_term
    /\ Kinds(Self.contributions) = <<"FMTContribution", "AttractiveFunctional">>

---------------------------------------------------------------------------
(* C3 *)

\* C3: f.subset(L) is the functional with_options builds from the parameter
\* set reduced to L, f's FMT version and f's options; the path is decided
\* again from the reduced component count.
C3_SubsetReassembles ==
    LastCall("subset") =>
        LET l       == ret[1].args
            g       == ret[1].val
            reduced == ParametersSubset(Self.parameters, l)
            fast    == WhiteBearVariant(Self.fmt_version) /\ Len(l) = 1
        IN  /\ g = with_options(reduced, Self.fmt_version, Self.options)
            /\ g.parameters = reduced
            /\ g.fmt_version = Self.fmt_version
            /\ g.options = Self.options
            /\ Kinds(g.contributions) =
                  IF fast THEN PureKinds ELSE GeneralKinds(Self.options.inc_nonadd_term)
            /\ \A i \in 1..Len(g.contributions) : g.contributions[i].parameters = reduced

C3_Witness ==
    /\ LastCall("subset")
    /\ Components = 3
    /\ Len(ret[1].args) = 1
    /\ Kinds(Self.contributions) = GeneralKinds(TRUE)
    /\ Kinds(ret[1].val.contributions) = PureKinds

---------------------------------------------------------------------------
(* C4 *)

\* C4: the identity subset [0, .., n-1] reproduces the functional (component
\* count, FMT version, options, ideal-gas term, ordered contribution list),
\* and applying it again changes nothing.
C4_IdentitySubset ==
    (LastCall("subset") /\ ret[1].args = Identity(Components)) =>
        LET g == ret[1].val
        IN  /\ g = Self
            /\ Len(g.parameters.m) = Components
            /\ subset(g, Identity(Components)) = g
            /\ subset(subset(g, Identity(Components)), Identity(Components)) = g

C4_Witness ==
    /\ LastCall("subset")
    /\ Components = 3
    /\ ret[1].args = Identity(3)
    /\ Self.fmt_version = "KierlikRosinberg"
    /\ Self.options # DefaultOptions
    /\ Self.parameters.joback_records # <<>>
    /\ ret[1].val = Self

---------------------------------------------------------------------------
(* C5 *)

\* max_eta * sum_i(n_i) / sum_i(m_i * (pi/6) * sigma_i^3 * n_i)
MaxDensityFormula(max_eta, m, sigma, moles) ==
    LET volume == ArraySum([i \in 1..Len(moles) |->
                      FMul(FMul(m[i], Powi3(sigma[i])), FromInt(moles[i]))])
    IN  FDiv(FMul(max_eta, Total(moles)), FMul(FRAC_PI_6, volume))

\* C5: compute_max_density(n) is max_eta * sum(n) / sum(m * pi/6 * sigma^3 * n)
\* with the max_eta, m and sigma of construction, and is the same for every
\* FMT version, inc_nonadd_term (and so for either assembly path).
C5_MaxDensity ==
    LastCall("compute_max_density") =>
        LET n == ret[1].args
        IN  /\ ret[1].val = MaxDensityFormula(Self.options.max_eta, params.m, params.sigma, n)
            /\ \A v \in FMTVersions, b \in BOOLEAN :
                  compute_max_density(
                      with_options(Self.parameters, v,
                                   [Self.options EXCEPT !.inc_nonadd_term = b]), n)
                  = ret[1].val

C5_Witness ==
    /\ LastCall("compute_max_density")
    /\ Components = 2
    /\ ret[1].args = <<1, 1>>
    /\ Self.options.max_eta = <<1, 1>>
    /\ IsFinite(ret[1].val) /\ ret[1].val[1] > 0

---------------------------------------------------------------------------
(* C6 *)

\* C6 as stated: compute_max_density(k * n) = k * compute_max_density(n) for
\* every mole vector n with positive total and every factor k > 0.
C6_LinearInMoles ==
    (LastCall("compute_max_density") /\ FLess(FromInt(0), Total(ret[1].args))) =>
        \A k \in 1..MaxK :
            compute_max_density(Self, Scaled(k, ret[1].args)) = FMul(FromInt(k), ret[1].val)

\* C6 as amended: compute_max_density does not change when the mole vector is
\* scaled: compute_max_density(k * n) = compute_max_density(n) in exact
\* arithmetic, for every n with positive total and every factor k > 0.
C6_ScaleInvariant ==
    (LastCall("compute_max_density") /\ FLess(FromInt(0), Total(ret[1].args))) =>
        \A k \in 1..MaxK :
            compute_max_density(Self, Scaled(k, ret[1].args)) = ret[1].val

C6_Witness ==
    /\ LastCall("compute_max_density")
    /\ Components = 2
    /\ ret[1].args = <<0, 1>>
    /\ IsFinite(ret[1].val) /\ ret[1].val[1] > 0
    /\ compute_max_density(Self, Scaled(2, ret[1].args)) = ret[1].val

---------------------------------------------------------------------------
(* C7 *)

\* C7: no functional holds a max_eta outside (0, 1]: construction with such a
\* value is rejected.
C7_MaxEtaInRange ==
    Built =>
        /\ FLess(FromInt(0), Self.options.max_eta)
        /\ ~FLess(FromInt(1), Self.options.max_eta)

---------------------------------------------------------------------------
(* C8 *)

\* C8: for the same parameter set and mole vector (non-negative entries,
\* positive total), a smaller max_eta gives a strictly smaller
\* compute_max_density.
C8_MonotoneInMaxEta ==
    (LastCall("compute_max_density") /\ FLess(FromInt(0), Total(ret[1].args))) =>
        \A e \in MaxEtas :
            LET other == compute_max_density(WithMaxEta(Self, e), ret[1].args)
            IN  /\ IsFinite(ret[1].val) /\ IsFinite(other)
                /\ FLess(Self.options.max_eta, e) => FLess(ret[1].val, other)
                /\ FLess(e, Self.options.max_eta) => FLess(other, ret[1].val)

C8_Witness ==
    /\ LastCall("compute_max_density")
    /\ Components = 3
    /\ ret[1].args = <<0, 1, 1>>
    /\ Self.options.max_eta = <<1, 2>>
    /\ FLess(ret[1].val, compute_max_density(WithMaxEta(Self, <<1, 1>>), ret[1].args))

---------------------------------------------------------------------------
(* C9 *)

C9Of(fn) ==
    IF fn.parameters.joback_records # <<>>
    THEN /\ fn.joback.ctor = "Joback::new"
         /\ fn.joback.records = fn.parameters.joback_records[1]
    ELSE /\ fn.joback.ctor = "Joback::default"
         /\ fn.joback.components = Len(fn.parameters.m)

\* C9: every functional holds one ideal-gas term, built from the Joback
\* records of its parameter set when present and otherwise the default term
\* sized to the component count of that parameter set (the reduced count for
\* a subset); ideal_gas() returns it.
C9_IdealGas ==
    /\ Built => C9Of(Self)
    /\ LastCall("subset") =>
          /\ C9Of(ret[1].val)
          /\ ret[1].val.parameters.joback_records = <<>> =>
                ret[1].val.joback.components = Len(ret[1].args)
    /\ LastCall("ideal_gas") => ret[1].val = Self.joback

C9_Witness ==
    /\ LastCall("subset")
    /\ Components = 3
    /\ Len(ret[1].args) = 2
    /\ Self.joback = [ctor |-> "Joback::default", records |-> <<>>, components |-> 3]
    /\ ret[1].val.joback = [ctor |-> "Joback::default", records |-> <<>>, components |-> 2]

---------------------------------------------------------------------------
(* C10 *)

\* C10: once built, the functional (parameter set, FMT version, options,
\* ideal-gas term, ordered contribution list) is never changed by a call, and
\* the caller's parameter set is never changed at all.
C10_Immutable == [][(Built => f' = f) /\ params' = params]_vars

C10_Witness ==
    /\ LastCall("subset")
    /\ ret[1].val # Self
    /\ Self.parameters = params
    /\ Self = with_options(params, Self.fmt_version, Self.options)

====
